---- MODULE Spec2Model ----
(***************************************************************************)
(* Model of send_gmail: the credential lifecycle of get_credentials, the   *)
(* MIME assembly of create_message, the remote call of send_message, the   *)
(* orchestration of send_email (src/gmailer.py and the older               *)
(* src/send_gmail.py), and jinja_render.                                   *)
(*                                                                         *)
(* One run of send_email is a walk of pc through the statements of the     *)
(* function; the results of the calls that leave the process (token        *)
(* refresh, consent flow, remote send) are chosen nondeterministically     *)
(* among the outcomes those calls have.  The clock advances between        *)
(* invocations only: one invocation is short against the resolution of a   *)
(* token lifetime.  Recipients and subject only fill headers of the        *)
(* message and decide no branch; the model leaves them out.                *)
(***************************************************************************)
EXTENDS Integers, Sequences, FiniteSets, TLC

\* ---------------------------------------------------------------- bounds
MaxTime == 2        \* the clock runs over 0..MaxTime
Lifetime == 2       \* clock ticks a freshly issued access token stays unexpired
MaxAttach == 2      \* longest attachment list passed to send_email
MaxLen == 3         \* longest template (in tokens) passed to jinja_render

\* ------------------------------------------------------------- constants
\* the two variants of the library in the repository
Modules == {"gmailer", "send_gmail"}

\* gmailer.py SCOPES, and a ScopeSet an earlier build of the program requested
SCOPES == {"gmail.compose", "gmail.modify"}
OldScopes == {"gmail.readonly"}

\* the file system the attachments are read from: two readable files that
\* share a base name, and one path that does not exist
Paths == {[dir |-> "d1", name |-> "a"], [dir |-> "d2", name |-> "a"],
          [dir |-> "d1", name |-> "gone"]}
Readable == {[dir |-> "d1", name |-> "a"], [dir |-> "d2", name |-> "a"]}
FileBytes(p) == IF p.dir = "d1" THEN "bytes1" ELSE "bytes2"

Bodies == {"", "text"}

\* ways the remote send call fails, with the exception the API client raises:
\* only a response of the provider with an error status becomes an HttpError
SendFailures ==
    {[kind |-> "network", exc |-> "ServerNotFoundError"],
     [kind |-> "auth_rejected", exc |-> "HttpError"],
     [kind |-> "auth_rejected", exc |-> "RefreshError"],
     [kind |-> "quota", exc |-> "HttpError"],
     [kind |-> "malformed_request", exc |-> "HttpError"]}
NoFailure == [kind |-> "none", exc |-> "none"]

\* ---------------------------------------------------------------- values
None == [kind |-> "none"]
Corrupt == [kind |-> "corrupt"]

Cred(r, e, s, g) ==
    [kind |-> "cred", refresh_token |-> r, expiry |-> e, scopes |-> s, granted |-> g]

\* token files a run can find: written by an earlier run (scopes as recorded
\* by to_json, granted as the provider granted them), or never written
StoredCreds ==
    {Cred(r, e, s, g) : r \in BOOLEAN, e \in 0..(MaxTime + Lifetime),
                        s \in {SCOPES}, g \in {SCOPES, OldScopes}}
    \cup {Cred(r, e, OldScopes, OldScopes) :
              r \in BOOLEAN, e \in 0..(MaxTime + Lifetime)}

NoOutcome == [status |-> "none", exc |-> "none", at |-> "none"]
Raised(exc, at) == [status |-> "raised", exc |-> exc, at |-> at]
Returned(what) == [status |-> what, exc |-> "none", at |-> "send_message"]

NoArgs == [body |-> "", html |-> FALSE, attachments |-> <<>>]

RECURSIVE SeqsUpTo(_, _)
SeqsUpTo(S, n) ==
    IF n = 0 THEN {<<>>}
    ELSE LET shorter == SeqsUpTo(S, n - 1)
         IN  shorter \cup {Append(s, x) : s \in {t \in shorter : Len(t) = n - 1}, x \in S}

VARIABLES
    module,         \* which variant of the library the process imported
    now,            \* the clock
    tokenFile,      \* content of TOKEN_PATH: None (no file), Corrupt, or a credential
    cache,          \* send_gmail.py: the lru_cache of get_credentials
    pc,             \* position of the running send_email
    creds,          \* local creds of get_credentials / credentials bound to the service
    args,           \* arguments of the running send_email
    message,        \* the MIMEMultipart create_message returned, or None
    outcome,        \* how the invocation ended
    refreshCalls,   \* creds.refresh calls of this invocation
    consentRuns,    \* consent flows started in this invocation
    tokenWrites,    \* writes of TOKEN_PATH in this invocation
    sendCalls,      \* remote send calls issued in this invocation
    startToken,     \* content of TOKEN_PATH when the invocation started
    tokenAtSend,    \* content of TOKEN_PATH when send_message was entered
    sendFailure,    \* the failure the remote send call reported, or NoFailure
    template,       \* jinja_render: the template argument
    context,        \* jinja_render: the context argument
    rendered        \* jinja_render: its result, or None before the call

sendVars == <<module, now, tokenFile, cache, pc, creds, args, message, outcome,
              refreshCalls, consentRuns, tokenWrites, sendCalls, startToken,
              tokenAtSend, sendFailure>>
renderVars == <<template, context, rendered>>
vars == <<sendVars, renderVars>>


\* ------------------------------------------------ credentials (google-auth)
\* Credentials.expired / Credentials.valid as get_credentials reads them
Expired(c, t) == t >= c.expiry
Valid(c, t) == ~Expired(c, t)

\* Credentials.from_authorized_user_file(path, SCOPES) on a file that parses:
\* the scopes passed in replace the ones recorded in the file, and nothing is
\* compared with the scopes the token was granted under
\* variant: a load that rejects a file recorded under other scopes
from_authorized_user_file_checked(file, scopes) ==
    IF file.scopes = scopes THEN file ELSE None

from_authorized_user_file(file, scopes) ==
    [file EXCEPT !.scopes = scopes]

\* the condition of lines 41-46: where get_credentials goes after the load
\* variant: the branch without the refresh arm
CredentialsBranchNoRefresh(c, t) ==
    IF c = None \/ ~Valid(c, t) THEN "consent" ELSE "save"

CredentialsBranch(c, t) ==
    IF c = None \/ ~Valid(c, t)
    THEN IF c # None /\ Expired(c, t) /\ c.refresh_token
         THEN "refresh"
         ELSE "consent"
    ELSE "save"

\* ------------------------------------------------------------ create_message
\* variant: the body part with the html flag ignored
BodyPartPlain(message_text, html) ==
    [ctype |-> "text/plain", name |-> "", payload |-> message_text]

\* MIMEText(message_text, 'html') or MIMEText(message_text), lines 87-90
BodyPart(message_text, html) ==
    [ctype |-> IF html THEN "text/html" ELSE "text/plain",
     name |-> "", payload |-> message_text]

AttachmentPart(path) ==
    [ctype |-> "application/octet-stream", name |-> path.name,
     payload |-> FileBytes(path)]

\* variant: a build that skips the attachments it cannot read
create_message_skip(message_text, html, attachments) ==
    LET readable == SelectSeq(attachments, LAMBDA p : p \in Readable)
    IN  [kind |-> "message",
         parts |-> <<BodyPart(message_text, html)>>
                   \o [i \in 1..Len(readable) |-> AttachmentPart(readable[i])]]

\* the parts of the message when every attachment opens, else the exception
\* of the first open() that fails
create_message(message_text, html, attachments) ==
    IF \E i \in 1..Len(attachments) : attachments[i] \notin Readable
    THEN [kind |-> "raise", exc |-> "OSError"]
    ELSE [kind |-> "message",
          parts |-> <<BodyPart(message_text, html)>>
                    \o [i \in 1..Len(attachments) |-> AttachmentPart(attachments[i])]]

\* -------------------------------------------------------------- send_message
\* variant: an except clause that catches every exception
send_message_catch_all(f) ==
    IF f = NoFailure THEN Returned("sent") ELSE Returned("None")

\* what send_message does with the result f of the one execute() call
send_message(f) ==
    IF f = NoFailure THEN Returned("sent")
    ELSE IF f.exc = "HttpError" THEN Returned("None")
    ELSE Raised(f.exc, "send_message")

\* variant: one retry after an HttpError
SendAttemptsRetry(f) == IF f.exc = "HttpError" THEN 2 ELSE 1

\* execute() calls send_message issues for a call that ends with f
SendAttempts(f) == 1

\* -------------------------------------------------------------- jinja_render
\* a template is a sequence of tokens: literal text, {{ name }}, {{ name.attr }};
\* text is a sequence of chunks, the empty string is <<>>
VarNames == {"x", "y"}
Values == {<<>>, <<"v">>}
Tokens == {[kind |-> "text", name |-> "hi"], [kind |-> "var", name |-> "x"],
           [kind |-> "var", name |-> "y"], [kind |-> "attr", name |-> "x"]}
Contexts == UNION {[D -> Values] : D \in SUBSET VarNames}

\* jinja2's default Undefined: printing it gives the empty string, taking an
\* attribute of it raises UndefinedError; a str value has no attribute, which
\* gives an Undefined that prints empty
RenderToken(tok, ctx) ==
    IF tok.kind = "text" THEN <<tok.name>>
    ELSE IF tok.kind = "var" /\ tok.name \in DOMAIN ctx THEN ctx[tok.name]
    ELSE <<>>

RECURSIVE Concat(_, _)
Concat(tpl, ctx) ==
    IF tpl = <<>> THEN <<>>
    ELSE RenderToken(Head(tpl), ctx) \o Concat(Tail(tpl), ctx)

AttrOfUndefined(tpl, ctx) ==
    \E i \in 1..Len(tpl) : tpl[i].kind = "attr" /\ tpl[i].name \notin DOMAIN ctx

\* variant: an environment with undefined=StrictUndefined
jinja_render_strict(tpl, ctx) ==
    IF \E i \in 1..Len(tpl) : tpl[i].kind # "text" /\ tpl[i].name \notin DOMAIN ctx
    THEN [kind |-> "raise", exc |-> "UndefinedError"]
    ELSE [kind |-> "text", text |-> Concat(tpl, ctx)]

\* JinjaEnvironment().from_string(template).render(**context)
jinja_render(tpl, ctx) ==
    IF AttrOfUndefined(tpl, ctx)
    THEN [kind |-> "raise", exc |-> "UndefinedError"]
    ELSE [kind |-> "text", text |-> Concat(tpl, ctx)]

\* ------------------------------------------------------------------- state
Init ==
    /\ module \in Modules
    /\ now = 0
    /\ tokenFile \in IF module = "gmailer"
                     THEN {None, Corrupt} \cup StoredCreds
                     ELSE {None}
    /\ cache = None
    /\ pc = "idle"
    /\ creds = None
    /\ args = NoArgs
    /\ message = None
    /\ outcome = NoOutcome
    /\ refreshCalls = 0
    /\ consentRuns = 0
    /\ tokenWrites = 0
    /\ sendCalls = 0
    /\ startToken = None
    /\ tokenAtSend = None
    /\ sendFailure = NoFailure
    /\ template = <<>>
    /\ context = {}
    /\ rendered = None

\* the clock advances between invocations
Tick ==
    /\ pc = "idle"
    /\ now < MaxTime
    /\ now' = now + 1
    /\ UNCHANGED <<module, tokenFile, cache, pc, creds, args, message, outcome,
                   refreshCalls, consentRuns, tokenWrites, sendCalls, startToken,
                   tokenAtSend, sendFailure, renderVars>>

\* send_email is called: its first step is the first argument of the
\* send_message call, build_gmail_service() (send_gmail.py: get_service())
SendEmail ==
    /\ pc = "idle"
    /\ \E b \in Bodies, h \in BOOLEAN, a \in SeqsUpTo(Paths, MaxAttach) :
           args' = [body |-> b, html |-> h, attachments |-> a]
    /\ pc' = "get_credentials"
    /\ startToken' = tokenFile
    /\ UNCHANGED <<module, now, tokenFile, cache, creds, message, outcome,
                   refreshCalls, consentRuns, tokenWrites, sendCalls,
                   tokenAtSend, sendFailure, renderVars>>

\* gmailer.py get_credentials, lines 36-39
LoadToken ==
    /\ module = "gmailer"
    /\ pc = "get_credentials"
    /\ IF tokenFile = None
       THEN creds' = None /\ pc' = "check" /\ UNCHANGED outcome
       ELSE IF tokenFile = Corrupt
       THEN /\ outcome' = Raised("ValueError", "get_credentials")
            /\ pc' = "raised"
            /\ UNCHANGED creds
       ELSE /\ creds' = from_authorized_user_file(tokenFile, SCOPES)
            /\ pc' = "check"
            /\ UNCHANGED outcome
    /\ UNCHANGED <<module, now, tokenFile, cache, args, message,
                   refreshCalls, consentRuns, tokenWrites, sendCalls, startToken,
                   tokenAtSend, sendFailure, renderVars>>

\* gmailer.py get_credentials, lines 41, 42 and 44
CheckCredentials ==
    /\ pc = "check"
    /\ pc' = CredentialsBranch(creds, now)
    /\ UNCHANGED <<module, now, tokenFile, cache, creds, args, message, outcome,
                   refreshCalls, consentRuns, tokenWrites, sendCalls, startToken,
                   tokenAtSend, sendFailure, renderVars>>

\* gmailer.py line 43: creds.refresh(Request()) returns or raises RefreshError
Refresh ==
    /\ pc = "refresh"
    /\ refreshCalls' = refreshCalls + 1
    /\ \/ /\ creds' = [creds EXCEPT !.expiry = now + Lifetime]
          /\ pc' = "save"
          /\ UNCHANGED outcome
       \/ /\ outcome' = Raised("RefreshError", "get_credentials")
          /\ pc' = "raised"
          /\ UNCHANGED creds
    /\ UNCHANGED <<module, now, tokenFile, cache, args, message,
                   consentRuns, tokenWrites, sendCalls, startToken,
                   tokenAtSend, sendFailure, renderVars>>

\* gmailer.py lines 45-46: the consent flow returns a credential granted
\* under SCOPES, or raises (consent declined, client secret unreadable)
RunLocalServer ==
    /\ pc = "consent"
    /\ consentRuns' = consentRuns + 1
    /\ \/ /\ \E r \in BOOLEAN : creds' = Cred(r, now + Lifetime, SCOPES, SCOPES)
          /\ pc' = "save"
          /\ UNCHANGED outcome
       \/ /\ outcome' = Raised("OAuthError", "get_credentials")
          /\ pc' = "raised"
          /\ UNCHANGED creds
    /\ UNCHANGED <<module, now, tokenFile, cache, args, message,
                   refreshCalls, tokenWrites, sendCalls, startToken,
                   tokenAtSend, sendFailure, renderVars>>

\* gmailer.py lines 48-53: the check of line 48 reads "not creds and ...",
\* false for every credential object, so nothing is raised; the file is written
SaveToken ==
    /\ pc = "save"
    /\ tokenFile' = creds
    /\ tokenWrites' = tokenWrites + 1
    /\ pc' = "build_service"
    /\ UNCHANGED <<module, now, cache, creds, args, message, outcome,
                   refreshCalls, consentRuns, sendCalls, startToken,
                   tokenAtSend, sendFailure, renderVars>>

\* send_gmail.py get_credentials under @lru_cache: a hit returns the cached
\* credential, no statement of the function runs
GetCredentialsCached ==
    /\ module = "send_gmail"
    /\ pc = "get_credentials"
    /\ cache # None
    /\ creds' = cache
    /\ pc' = "build_service"
    /\ UNCHANGED <<module, now, tokenFile, cache, args, message, outcome,
                   refreshCalls, consentRuns, tokenWrites, sendCalls, startToken,
                   tokenAtSend, sendFailure, renderVars>>

\* send_gmail.py get_credentials, lines 29-45, on a cache miss: the result is
\* cached when the function returns, not when it raises
AuthorizationFlow ==
    /\ module = "send_gmail"
    /\ pc = "get_credentials"
    /\ cache = None
    /\ consentRuns' = consentRuns + 1
    /\ \/ /\ \E r \in BOOLEAN : creds' = Cred(r, now + Lifetime, SCOPES, SCOPES)
          /\ cache' = creds'
          /\ pc' = "build_service"
          /\ UNCHANGED outcome
       \/ /\ outcome' = Raised("OAuthError", "get_credentials")
          /\ pc' = "raised"
          /\ UNCHANGED <<creds, cache>>
    /\ UNCHANGED <<module, now, tokenFile, args, message,
                   refreshCalls, tokenWrites, sendCalls, startToken,
                   tokenAtSend, sendFailure, renderVars>>

\* build('gmail', 'v1', credentials=...): binds the credential to the service
BuildService ==
    /\ pc = "build_service"
    /\ pc' = "create_message"
    /\ UNCHANGED <<module, now, tokenFile, cache, creds, args, message, outcome,
                   refreshCalls, consentRuns, tokenWrites, sendCalls, startToken,
                   tokenAtSend, sendFailure, renderVars>>

\* the second argument of the send_message call: create_message(...)
CreateMessage ==
    /\ pc = "create_message"
    /\ LET m == create_message(args.body, args.html, args.attachments)
       IN  IF m.kind = "raise"
           THEN /\ outcome' = Raised(m.exc, "create_message")
                /\ pc' = "raised"
                /\ UNCHANGED <<message, tokenAtSend>>
           ELSE /\ message' = m
                /\ tokenAtSend' = tokenFile
                /\ pc' = "send_message"
                /\ UNCHANGED outcome
    /\ UNCHANGED <<module, now, tokenFile, cache, creds, args,
                   refreshCalls, consentRuns, tokenWrites, sendCalls, startToken,
                   sendFailure, renderVars>>

\* send_message: the remote call and the except clause (the message is
\* serialised and base64url-encoded on the way, in gmailer.py inside the try,
\* in send_gmail.py at the end of create_message)
SendMessage ==
    /\ pc = "send_message"
    /\ \E f \in SendFailures \cup {NoFailure} :
           /\ sendFailure' = f
           /\ sendCalls' = sendCalls + SendAttempts(f)
           /\ outcome' = send_message(f)
           /\ pc' = IF send_message(f).status = "raised" THEN "raised" ELSE "done"
    /\ UNCHANGED <<module, now, tokenFile, cache, creds, args, message,
                   refreshCalls, consentRuns, tokenWrites, startToken,
                   tokenAtSend, renderVars>>

\* send_email returns or its exception leaves it: the locals are gone
Return ==
    /\ pc \in {"done", "raised"}
    /\ pc' = "idle"
    /\ creds' = None
    /\ args' = NoArgs
    /\ message' = None
    /\ outcome' = NoOutcome
    /\ refreshCalls' = 0
    /\ consentRuns' = 0
    /\ tokenWrites' = 0
    /\ sendCalls' = 0
    /\ startToken' = None
    /\ tokenAtSend' = None
    /\ sendFailure' = NoFailure
    /\ UNCHANGED <<module, now, tokenFile, cache, renderVars>>

Next ==
    \/ Tick
    \/ SendEmail
    \/ LoadToken
    \/ CheckCredentials
    \/ Refresh
    \/ RunLocalServer
    \/ SaveToken
    \/ GetCredentialsCached
    \/ AuthorizationFlow
    \/ BuildService
    \/ CreateMessage
    \/ SendMessage
    \/ Return

Spec == Init /\ [][Next]_vars


\* ------------------------------------------------- jinja_render on its own
InitRender ==
    /\ module = "gmailer"
    /\ now = 0
    /\ tokenFile = None
    /\ cache = None
    /\ pc = "idle"
    /\ creds = None
    /\ args = NoArgs
    /\ message = None
    /\ outcome = NoOutcome
    /\ refreshCalls = 0
    /\ consentRuns = 0
    /\ tokenWrites = 0
    /\ sendCalls = 0
    /\ startToken = None
    /\ tokenAtSend = None
    /\ sendFailure = NoFailure
    /\ template \in SeqsUpTo(Tokens, MaxLen)
    /\ context \in Contexts
    /\ rendered = None

JinjaRender ==
    /\ rendered = None
    /\ rendered' = jinja_render(template, context)
    /\ UNCHANGED <<sendVars, template, context>>

NextRender == JinjaRender

SpecRender == InitRender /\ [][NextRender]_vars


\* ==================================================================== claims
AfterSave == {"build_service", "create_message", "send_message", "done"}
PastCredentials(p, o) ==
    p \in AfterSave \/ (p = "raised" /\ o.at # "get_credentials")
AllReadable(attachments) ==
    \A i \in 1..Len(attachments) : attachments[i] \in Readable

\* the invocation started on a token file holding a credential that is
\* expired and has a refresh_token
StartExpiredRefreshable ==
    /\ module = "gmailer"
    /\ pc # "idle"
    /\ startToken.kind = "cred"
    /\ Expired(startToken, now)
    /\ startToken.refresh_token

\* C1: a run of get_credentials that starts on an expired credential with a
\* refresh_token makes no refresh call before the refresh step and exactly
\* one from then on; when the refresh succeeded the refreshed credential (the
\* stored one with a new expiry) is what the token file holds after the one
\* write of the run, and no consent flow was started.
C1_RefreshOnceThenSave ==
    StartExpiredRefreshable =>
        /\ refreshCalls <= 1
        /\ pc \in {"get_credentials", "check", "refresh"} => refreshCalls = 0
        /\ pc \in {"save", "raised"} \cup AfterSave => refreshCalls = 1
        /\ pc # "consent"
        /\ (pc = "save" \/ PastCredentials(pc, outcome)) =>
              /\ consentRuns = 0
              /\ creds = [startToken EXCEPT !.expiry = now + Lifetime,
                                            !.scopes = SCOPES]
              /\ Valid(creds, now)
        /\ PastCredentials(pc, outcome) =>
              /\ tokenWrites = 1
              /\ tokenFile = creds

C1_Witness ==
    /\ StartExpiredRefreshable
    /\ pc = "done"
    /\ refreshCalls = 1
    /\ tokenFile # startToken
    /\ tokenFile.expiry = now + Lifetime

\* C2: a run of get_credentials never ends with the failure of the refresh
\* call: after a failed refresh the consent flow runs in the same invocation.
C2_RefreshFailureRunsConsent ==
    (pc = "raised" /\ refreshCalls > 0 /\ outcome.at = "get_credentials") =>
        /\ outcome.exc # "RefreshError"
        /\ consentRuns > 0

\* C3: a run that starts on a token file that does not parse behaves as one
\* that starts without a token file: it does not end with the load error.
C3_CorruptTokenAsMissing ==
    (module = "gmailer" /\ pc # "idle" /\ startToken = Corrupt) =>
        ~(pc = "raised" /\ outcome = Raised("ValueError", "get_credentials"))

\* C4 as stated: when the attachment failure is raised, the invocation has
\* started no consent flow, made no refresh call, written no token file and
\* issued no remote send call.
C4_AttachmentFailureBeforeAnySideEffect ==
    (pc = "raised" /\ outcome.at = "create_message") =>
        /\ consentRuns = 0
        /\ refreshCalls = 0
        /\ tokenWrites = 0
        /\ sendCalls = 0

\* C4 as amended: an invocation with an attachment that cannot be read never
\* enters send_message and issues no remote send call, and builds no message;
\* when the attachment failure is raised the credentials step is already
\* over (gmailer.py has written the token file once).
C4_AttachmentFailureBeforeSend ==
    /\ (pc # "idle" /\ ~AllReadable(args.attachments)) =>
          /\ sendCalls = 0
          /\ pc # "send_message"
          /\ pc # "done"
          /\ message = None
    /\ (pc = "raised" /\ outcome.at = "create_message") =>
          /\ ~AllReadable(args.attachments)
          /\ outcome.exc = "OSError"
          /\ sendCalls = 0
          /\ module = "gmailer" => tokenWrites = 1 /\ tokenFile = creds

C4_Witness ==
    /\ pc = "raised"
    /\ outcome.at = "create_message"
    /\ Len(args.attachments) = 2
    /\ args.attachments[1] \in Readable
    /\ tokenWrites = 1
    /\ consentRuns = 1

C6_OneAttemptTokenUntouched ==
    /\ sendCalls <= 1
    /\ sendFailure # NoFailure =>
          /\ sendCalls = 1
          /\ tokenFile = tokenAtSend

C6_Witness ==
    /\ sendFailure.exc = "HttpError"
    /\ pc = "done"
    /\ sendCalls = 1
    /\ tokenFile # None
    /\ tokenFile = tokenAtSend

\* C7: the credential bound to the service of an invocation is unexpired at
\* that moment: no call hands over a credential of an earlier call whose
\* expiry it did not check again.
C7_ServiceCredentialUnexpired ==
    pc = "build_service" => Valid(creds, now)

\* C8 as stated: a credential granted under a ScopeSet other than SCOPES is
\* never the one get_credentials returns.
C8_StaleScopeNeverReady ==
    (module = "gmailer" /\ pc = "build_service") => creds.granted = SCOPES

\* C8 as amended: get_credentials does not compare SCOPES with the scopes of
\* the stored credential: the consent flow runs exactly when the stored
\* credential is expired without a refresh_token, and a stored credential
\* that is unexpired (or refreshed) is returned with the grant it has.
C8_ScopesNotCompared ==
    (module = "gmailer" /\ startToken.kind = "cred"
     /\ pc \in {"refresh", "consent", "save"} \cup AfterSave) =>
        /\ (pc = "consent" \/ consentRuns > 0) <=>
              (Expired(startToken, now) /\ ~startToken.refresh_token)
        /\ (pc = "build_service" /\ consentRuns = 0) =>
              /\ creds.granted = startToken.granted
              /\ creds.scopes = SCOPES

C8_Witness ==
    /\ module = "gmailer"
    /\ pc = "build_service"
    /\ startToken.kind = "cred"
    /\ startToken.scopes = OldScopes
    /\ consentRuns = 0
    /\ refreshCalls = 0
    /\ creds.granted = OldScopes

\* C9: the message create_message returns has one body part, first, tagged
\* text/html or text/plain as html says and carrying the body text, then one
\* part per attachment, in the order given, named by the base name of its
\* path and carrying the bytes of its file; no other part is a text part.
C9_MessageParts ==
    message # None =>
        LET parts == message.parts
            n == Len(args.attachments)
        IN  /\ Len(parts) = n + 1
            /\ parts[1].ctype = IF args.html THEN "text/html" ELSE "text/plain"
            /\ parts[1].payload = args.body
            /\ \A i \in 1..n :
                  /\ parts[i + 1].name = args.attachments[i].name
                  /\ parts[i + 1].payload = FileBytes(args.attachments[i])
                  /\ parts[i + 1].ctype \notin {"text/html", "text/plain"}

C9_Witness ==
    /\ message # None
    /\ args.html
    /\ args.body = ""
    /\ Len(args.attachments) = 2
    /\ args.attachments[1].dir = "d2"
    /\ args.attachments[2].dir = "d1"
    /\ message.parts[2].payload = "bytes2"

\* the template refers to a name the context does not bind
MissingReference ==
    \E i \in 1..Len(template) :
        template[i].kind # "text" /\ template[i].name \notin DOMAIN context

====
